---- MODULE Spec2Model ----
(***************************************************************************)
(* Model of plotter.py, the quantum measurement visualization script.      *)
(* The script is one straight-line run: read_csv, column validation, two   *)
(* prints, chart construction on one axes, savefig, plt.show, then the     *)
(* statistical summary and the experimental probabilities.  Each action    *)
(* below is one statement (or one iteration of a loop) of the script.      *)
(*                                                                         *)
(* Text (labels, cells, printed numbers) is a sequence of one-character    *)
(* strings, so that parsing and formatting are computed, not assumed.      *)
(***************************************************************************)
EXTENDS Integers, Sequences, FiniteSets, TLC

VARIABLES file, display, pc, df, fig, image, viewer, stdout, err, exitStatus, i

vars == <<file, display, pc, df, fig, image, viewer, stdout, err, exitStatus, i>>

-----------------------------------------------------------------------------
(* Bounds of the model *)

MaxRows == 4

LabelWidth == 2

-----------------------------------------------------------------------------
(* Text: parsing and formatting of integers *)

Digits == <<"0", "1", "2", "3", "4", "5", "6", "7", "8", "9">>

IsDigit(c) == \E d \in 1..10 : Digits[d] = c

DigitVal(c) == (CHOOSE d \in 1..10 : Digits[d] = c) - 1

IsDigitText(t) == Len(t) > 0 /\ \A k \in 1..Len(t) : IsDigit(t[k])

\* what read_csv takes for an integer cell: an optional sign, then digits
IsIntText(t) ==
    \/ IsDigitText(t)
    \/ Len(t) > 1 /\ t[1] = "-" /\ IsDigitText(Tail(t))

RECURSIVE NatOf(_)
NatOf(t) ==
    IF t = <<>> THEN 0
    ELSE NatOf(SubSeq(t, 1, Len(t) - 1)) * 10 + DigitVal(t[Len(t)])

IntOf(t) == IF t[1] = "-" THEN 0 - NatOf(Tail(t)) ELSE NatOf(t)

RECURSIVE StrNat(_)
StrNat(n) ==
    IF n < 10 THEN <<Digits[n + 1]>>
    ELSE StrNat(n \div 10) \o <<Digits[(n % 10) + 1]>>

\* Python's str() of an int
Str(v) == IF v < 0 THEN <<"-">> \o StrNat(0 - v) ELSE StrNat(v)

-----------------------------------------------------------------------------
(* The input file collapse_measurements.csv *)

RECURSIVE BinText(_, _)
BinText(n, w) ==
    IF w = 0 THEN <<>>
    ELSE BinText(n \div 2, w - 1) \o <<Digits[(n % 2) + 1]>>

\* the label written in row k of the file: a binary string such as 01, or
\* the same in ket notation, |01>
FileLabel(scheme, k) ==
    IF scheme = "binary" THEN BinText(k - 1, LabelWidth)
    ELSE <<"|">> \o BinText(k - 1, LabelWidth) \o <<">">>

LabelSchemes == {"binary", "ket"}

\* the texts a count cell of the file may hold: a count, or a defect (a
\* negative number, a word)
CountTexts == { <<"0">>, <<"3">>, <<"5">>, <<"9">> }

DefectTexts == { <<"-", "1">>, <<"x">> }

Headers == SUBSET {"Measurement", "Count"}

\* the Count column of the file: up to MaxRows counts, at most one of them
\* replaced by a defect
CountColumns == UNION { [1..n -> CountTexts] : n \in 0..MaxRows }

WithDefect(c) == { [c EXCEPT ![p] = t] : p \in 1..Len(c), t \in DefectTexts }

Files ==
    { [header |-> h, scheme |-> s, cells |-> c] :
        h \in Headers, s \in LabelSchemes,
        c \in CountColumns \cup UNION { WithDefect(c0) : c0 \in CountColumns } }

FileLabels(f) == [k \in 1..Len(f.cells) |-> FileLabel(f.scheme, k)]

-----------------------------------------------------------------------------
(* pandas: read_csv and the Series operations the script uses *)

RECURSIVE StripZeros(_)
StripZeros(t) ==
    IF Len(t) > 1 /\ t[1] = "0" THEN StripZeros(Tail(t)) ELSE t

\* a value of the Count column: an int64 (num, with its str() text) or,
\* in an object column, the cell's text kept as a Python str
IntCell(v) == [num |-> TRUE, v |-> v, s |-> Str(v)]

StrCell(t) == [num |-> FALSE, v |-> 0, s |-> t]

NoTable == [columns |-> {}, dtype |-> "none", Measurement |-> <<>>, Count |-> <<>>]

\* pd.read_csv with default dtypes: a column whose cells are all integers
\* becomes int64 (so the label 01 is loaded as the integer 1), any other
\* non-empty column keeps its texts as objects; a column of no rows is object
read_csv(f) ==
    LET n == Len(f.cells)
        labels == FileLabels(f)
        labelsInt == n > 0 /\ \A k \in 1..n : IsDigitText(labels[k])
        cellsInt == n > 0 /\ \A k \in 1..n : IsIntText(f.cells[k])
    IN  [columns |-> f.header,
         dtype |-> IF cellsInt THEN "int64" ELSE "object",
         Measurement |->
            IF "Measurement" \in f.header
            THEN [k \in 1..n |-> IF labelsInt THEN StripZeros(labels[k]) ELSE labels[k]]
            ELSE <<>>,
         Count |->
            IF "Count" \in f.header
            THEN [k \in 1..n |-> IF cellsInt THEN IntCell(IntOf(f.cells[k]))
                                 ELSE StrCell(f.cells[k])]
            ELSE <<>>]

RECURSIVE IntSum(_)
IntSum(col) == IF col = <<>> THEN 0 ELSE col[1].v + IntSum(Tail(col))

RECURSIVE Concat(_)
Concat(col) == IF col = <<>> THEN <<>> ELSE col[1].s \o Concat(Tail(col))

\* Series.sum() leaving the last record out of the total
SeriesSum_DropsLast(d) ==
    IF d.dtype = "int64" \/ d.Count = <<>>
    THEN IntCell(IntSum(SubSeq(d.Count, 1, Len(d.Count) - 1)))
    ELSE StrCell(Concat(d.Count))

\* Series.sum(): the integer sum of an int64 column (0 for an empty column),
\* the concatenation of the texts of an object column
SeriesSum(d) ==
    IF d.dtype = "int64" \/ d.Count = <<>> THEN IntCell(IntSum(d.Count))
    ELSE StrCell(Concat(d.Count))

\* Series.idxmax(): position of the first occurrence of the maximum
RECURSIVE ScanMax(_, _, _)
ScanMax(col, k, best) ==
    IF k > Len(col) THEN best
    ELSE ScanMax(col, k + 1, IF col[k].v > col[best].v THEN k ELSE best)

\* idxmax keeping the last best-so-far: a later equal count replaces the earlier
RECURSIVE ScanMaxLast(_, _, _)
ScanMaxLast(col, k, best) ==
    IF k > Len(col) THEN best
    ELSE ScanMaxLast(col, k + 1, IF col[k].v >= col[best].v THEN k ELSE best)

idxmax_LastOccurrence(col) == ScanMaxLast(col, 2, 1)

idxmax(col) == ScanMax(col, 2, 1)

\* Series.idxmin(): position of the first occurrence of the minimum
RECURSIVE ScanMin(_, _, _)
ScanMin(col, k, best) ==
    IF k > Len(col) THEN best
    ELSE ScanMin(col, k + 1, IF col[k].v < col[best].v THEN k ELSE best)

idxmin(col) == ScanMin(col, 2, 1)

RECURSIVE SumSq(_)
SumSq(col) == IF col = <<>> THEN 0 ELSE col[1].v * col[1].v + SumSq(Tail(col))

\* Series.std() (ddof = 1) as the exact sample variance a / b, with
\* a = n * sum(x^2) - sum(x)^2 and b = n * (n - 1); b = 0 is NaN
StdVar(col) ==
    LET n == Len(col)
    IN  [a |-> n * SumSq(col) - IntSum(col) * IntSum(col), b |-> n * (n - 1)]

-----------------------------------------------------------------------------
(* Printed lines and the figure *)

Line(kind, lab, a, b) == [kind |-> kind, lab |-> lab, a |-> a, b |-> b]

NoFigure ==
    [created |-> FALSE, bars |-> <<>>, line |-> <<>>, titles |-> FALSE,
     ticks |-> <<>>, texts |-> <<>>, finished |-> FALSE]

NoImage == [written |-> FALSE, fig |-> NoFigure]

N == Len(df.Count)

-----------------------------------------------------------------------------
Init ==
    /\ file \in Files
    /\ display \in BOOLEAN
    /\ pc = "load"
    /\ df = NoTable
    /\ fig = NoFigure
    /\ image = NoImage
    /\ viewer = "none"
    /\ stdout = <<>>
    /\ err = "none"
    /\ exitStatus = -1
    /\ i = 0

Fail(e) ==
    /\ pc' = "failed"
    /\ err' = e
    /\ exitStatus' = 1

\* line 41
Load ==
    /\ pc = "load"
    /\ df' = read_csv(file)
    /\ pc' = "validate"
    /\ UNCHANGED <<file, display, fig, image, viewer, stdout, err, exitStatus, i>>

\* Validate with the two tests joined by "and": only a header lacking both
\* columns is refused
Validate_BothMissing ==
    /\ pc = "validate"
    /\ IF "Measurement" \notin df.columns /\ "Count" \notin df.columns
       THEN Fail("ValueError")
       ELSE pc' = "print_loaded" /\ UNCHANGED <<err, exitStatus>>
    /\ UNCHANGED <<file, display, df, fig, image, viewer, stdout, i>>

\* lines 44-45
Validate ==
    /\ pc = "validate"
    /\ IF "Measurement" \notin df.columns \/ "Count" \notin df.columns
       THEN Fail("ValueError")
       ELSE pc' = "print_loaded" /\ UNCHANGED <<err, exitStatus>>
    /\ UNCHANGED <<file, display, df, fig, image, viewer, stdout, i>>

\* lines 47-48
PrintLoaded ==
    /\ pc = "print_loaded"
    /\ stdout' = stdout \o
         << Line("loaded", <<>>, Len(df.Measurement), 0),
            Line("total", SeriesSum(df).s, SeriesSum(df).v, 0) >>
    /\ pc' = "subplots"
    /\ UNCHANGED <<file, display, df, fig, image, viewer, err, exitStatus, i>>

\* line 52
Subplots ==
    /\ pc = "subplots"
    /\ fig' = [fig EXCEPT !.created = TRUE]
    /\ pc' = "bar"
    /\ UNCHANGED <<file, display, df, image, viewer, stdout, err, exitStatus, i>>

\* lines 56-60: one bar per record, at x = 0 .. N-1
Bar ==
    /\ pc = "bar"
    /\ fig' = [fig EXCEPT !.bars =
                 [k \in 1..Len(df.Measurement) |-> [x |-> k - 1, height |-> df.Count[k]]]]
    /\ pc' = "plot"
    /\ UNCHANGED <<file, display, df, image, viewer, stdout, err, exitStatus, i>>

\* lines 64-69
Plot ==
    /\ pc = "plot"
    /\ fig' = [fig EXCEPT !.line =
                 [k \in 1..Len(df.Measurement) |-> [x |-> k - 1, y |-> df.Count[k]]]]
    /\ pc' = "titles"
    /\ UNCHANGED <<file, display, df, image, viewer, stdout, err, exitStatus, i>>

\* the image saved right after the titles, before ticks and value labels
Titles_ThenSave ==
    /\ pc = "titles"
    /\ fig' = [fig EXCEPT !.titles = TRUE]
    /\ pc' = "savefig"
    /\ UNCHANGED <<file, display, df, image, viewer, stdout, err, exitStatus, i>>

\* lines 72-74
Titles ==
    /\ pc = "titles"
    /\ fig' = [fig EXCEPT !.titles = TRUE]
    /\ pc' = "ticks"
    /\ UNCHANGED <<file, display, df, image, viewer, stdout, err, exitStatus, i>>

\* lines 78-79
Ticks ==
    /\ pc = "ticks"
    /\ fig' = [fig EXCEPT !.ticks =
                 [k \in 1..Len(df.Measurement) |-> [x |-> k - 1, label |-> df.Measurement[k]]]]
    /\ pc' = "annotate"
    /\ i' = 0
    /\ UNCHANGED <<file, display, df, image, viewer, stdout, err, exitStatus>>

\* the value label loop counting from 1: every label one bar to the right
Annotate_FromOne ==
    /\ pc = "annotate"
    /\ IF i >= Len(df.Count)
       THEN pc' = "finish" /\ UNCHANGED <<fig, err, exitStatus, i>>
       ELSE LET v == df.Count[i + 1]
            IN  IF v.num
                THEN /\ fig' = [fig EXCEPT !.texts =
                                  Append(@, [x |-> i + 1, y |-> v.v + 1, s |-> Str(v.v)])]
                     /\ i' = i + 1
                     /\ UNCHANGED <<pc, err, exitStatus>>
                ELSE Fail("TypeError") /\ UNCHANGED <<fig, i>>
    /\ UNCHANGED <<file, display, df, image, viewer, stdout>>

\* lines 83-84: one iteration of the value label loop, or its exit;
\* v + 1 on a str raises TypeError
Annotate ==
    /\ pc = "annotate"
    /\ IF i >= N
       THEN pc' = "finish" /\ UNCHANGED <<fig, err, exitStatus, i>>
       ELSE LET v == df.Count[i + 1]
            IN  IF v.num
                THEN /\ fig' = [fig EXCEPT !.texts =
                                  Append(@, [x |-> i, y |-> v.v + 1, s |-> Str(v.v)])]
                     /\ i' = i + 1
                     /\ UNCHANGED <<pc, err, exitStatus>>
                ELSE Fail("TypeError") /\ UNCHANGED <<fig, i>>
    /\ UNCHANGED <<file, display, df, image, viewer, stdout>>

\* lines 88-95: grid, legend, tight_layout
Finish ==
    /\ pc = "finish"
    /\ fig' = [fig EXCEPT !.finished = TRUE]
    /\ pc' = "savefig"
    /\ UNCHANGED <<file, display, df, image, viewer, stdout, err, exitStatus, i>>

\* lines 99-102
Savefig ==
    /\ pc = "savefig"
    /\ image' = [written |-> TRUE, fig |-> fig]
    /\ pc' = "show"
    /\ UNCHANGED <<file, display, df, fig, viewer, stdout, err, exitStatus, i>>

\* plt.show waiting for a window to be closed whether or not there is a display
Show_AlwaysBlocks ==
    /\ pc = "show"
    /\ viewer' = "open"
    /\ pc' = "showing"
    /\ UNCHANGED <<file, display, df, fig, image, stdout, err, exitStatus, i>>

\* line 105: with a display the call opens the viewer and returns when its
\* window is closed; without one the non-interactive backend returns at once
Show ==
    /\ pc = "show"
    /\ IF display
       THEN viewer' = "open" /\ pc' = "showing"
       ELSE viewer' = "none" /\ pc' = "mode"
    /\ UNCHANGED <<file, display, df, fig, image, stdout, err, exitStatus, i>>

\* the user closes the viewer's window; plt.show returns
CloseWindow ==
    /\ pc = "showing"
    /\ viewer' = "closed"
    /\ pc' = "mode"
    /\ UNCHANGED <<file, display, df, fig, image, stdout, err, exitStatus, i>>

\* lines 108-109: idxmax of an empty column raises ValueError
PrintMode ==
    /\ pc = "mode"
    /\ IF N = 0
       THEN /\ stdout' = Append(stdout, Line("summary", <<>>, 0, 0))
            /\ Fail("ValueError")
       ELSE /\ stdout' = stdout \o
                 << Line("summary", <<>>, 0, 0),
                    Line("mode", df.Measurement[idxmax(df.Count)],
                         df.Count[idxmax(df.Count)].v, 0) >>
            /\ pc' = "antimode"
            /\ UNCHANGED <<err, exitStatus>>
    /\ UNCHANGED <<file, display, df, fig, image, viewer, i>>

\* line 110
PrintAntimode ==
    /\ pc = "antimode"
    /\ stdout' = Append(stdout,
         Line("antimode", df.Measurement[idxmin(df.Count)],
              df.Count[idxmin(df.Count)].v, 0))
    /\ pc' = "mean"
    /\ UNCHANGED <<file, display, df, fig, image, viewer, err, exitStatus, i>>

\* line 111: the mean as the exact fraction sum / n
PrintMean ==
    /\ pc = "mean"
    /\ stdout' = Append(stdout, Line("mean", <<>>, IntSum(df.Count), N))
    /\ pc' = "std"
    /\ UNCHANGED <<file, display, df, fig, image, viewer, err, exitStatus, i>>

\* line 112
PrintStd ==
    /\ pc = "std"
    /\ stdout' = Append(stdout,
         Line("std", <<>>, StdVar(df.Count).a, StdVar(df.Count).b))
    /\ pc' = "prob_header"
    /\ UNCHANGED <<file, display, df, fig, image, viewer, err, exitStatus, i>>

\* lines 115-116
PrintProbHeader ==
    /\ pc = "prob_header"
    /\ stdout' = Append(stdout, Line("prob_header", <<>>, 0, 0))
    /\ pc' = "prob"
    /\ i' = 0
    /\ UNCHANGED <<file, display, df, fig, image, viewer, err, exitStatus>>

\* lines 117-119: one iteration of the probabilities loop, or its exit and
\* the end of the script; the quotient is printed whatever the total
\* (numpy division: a zero total gives nan or inf, not an exception)
PrintProb ==
    /\ pc = "prob"
    /\ IF i >= N
       THEN /\ pc' = "done"
            /\ exitStatus' = 0
            /\ UNCHANGED <<stdout, i>>
       ELSE /\ stdout' = Append(stdout,
                 Line("prob", df.Measurement[i + 1], df.Count[i + 1].v,
                      SeriesSum(df).v))
            /\ i' = i + 1
            /\ UNCHANGED <<pc, exitStatus>>
    /\ UNCHANGED <<file, display, df, fig, image, viewer, err>>

Step ==
    \/ Load
    \/ Validate
    \/ PrintLoaded
    \/ Subplots
    \/ Bar
    \/ Plot
    \/ Titles
    \/ Ticks
    \/ Annotate
    \/ Finish
    \/ Savefig
    \/ Show
    \/ PrintMode
    \/ PrintAntimode
    \/ PrintMean
    \/ PrintStd
    \/ PrintProbHeader
    \/ PrintProb

Next == Step \/ CloseWindow

Spec == Init /\ [][Next]_vars

\* the interpreter runs the script's next statement whenever there is one;
\* nothing obliges the user to close the viewer
FairSpec == Spec /\ WF_vars(Step)

-----------------------------------------------------------------------------
(* What the input file holds, read from the file alone *)

HeaderOK == {"Measurement", "Count"} \subseteq file.header

FileN == Len(file.cells)

FileCount(k) == IntOf(file.cells[k])

AllCellsInt == \A k \in 1..FileN : IsIntText(file.cells[k])

AllCellsNonNegative == \A k \in 1..FileN : IsDigitText(file.cells[k])

\* a header with both columns and at least one record, every count a
\* non-negative integer
ValidInput == HeaderOK /\ FileN >= 1 /\ AllCellsNonNegative

FileTotal ==
    LET S[k \in 0..FileN] == IF k = 0 THEN 0 ELSE S[k - 1] + FileCount(k)
    IN  S[FileN]

Printed(kind) == SelectSeq(stdout, LAMBDA l : l.kind = kind)

HasLine(kind) == \E n \in 1..Len(stdout) : stdout[n].kind = kind

StatKinds == {"mode", "antimode", "mean", "std"}

AnyStatistic == \E n \in 1..Len(stdout) : stdout[n].kind \in StatKinds

ChartSteps == {"subplots", "bar", "plot", "titles", "ticks", "annotate", "finish"}

ReportSteps == {"mode", "antimode", "mean", "std", "prob_header", "prob"}

\* every element of the chart the script adds is there, one per record
ChartComplete(f) ==
    /\ f.created /\ f.titles /\ f.finished
    /\ Len(f.bars) = FileN /\ Len(f.line) = FileN
    /\ Len(f.ticks) = FileN /\ Len(f.texts) = FileN

-----------------------------------------------------------------------------
(* C1 *)

-----------------------------------------------------------------------------
(* C2 *)

\* C2: a non-empty table whose counts are all zero runs to completion, with
\* one bar of height zero per record, a report line saying the
\* probabilities are undefined, and no per-record probability (no division
\* by the zero total).
C2_ZeroTotalReportsUndefined ==
    (HeaderOK /\ FileN >= 1 /\ \A k \in 1..FileN : file.cells[k] = <<"0">>) =>
        /\ pc # "failed"
        /\ ~HasLine("prob")
        /\ pc = "done" =>
             /\ Len(image.fig.bars) = FileN
             /\ \A k \in 1..FileN : image.fig.bars[k].height.v = 0
             /\ HasLine("undefined")

-----------------------------------------------------------------------------
(* C3 *)

\* C3: a table of zero records makes the run fail with EmptyDatasetError,
\* raised by the statistics step: it neither completes nor fails with some
\* other error while computing mode, antimode or mean.
C3_EmptyTableRaisesEmptyDatasetError ==
    (HeaderOK /\ FileN = 0) =>
        /\ pc # "done"
        /\ pc = "failed" => err = "EmptyDatasetError"

-----------------------------------------------------------------------------
(* C4 *)

\* C4: a count cell that is not a non-negative integer makes the run fail
\* with ParseError at load time: before any statistic is computed, any
\* chart is built or any image is written.
C4_BadCellFailsWithParseError ==
    (HeaderOK /\ ~AllCellsNonNegative) =>
        /\ pc # "done"
        /\ pc = "failed" => err = "ParseError"
        /\ ~fig.created /\ ~image.written /\ ~AnyStatistic

-----------------------------------------------------------------------------
(* C5 *)

\* the first record, in file order, whose count is the largest / smallest
FirstMax ==
    CHOOSE k \in 1..FileN :
        /\ \A j \in 1..FileN : FileCount(j) <= FileCount(k)
        /\ \A j \in 1..(k - 1) : FileCount(j) < FileCount(k)

FirstMin ==
    CHOOSE k \in 1..FileN :
        /\ \A j \in 1..FileN : FileCount(j) >= FileCount(k)
        /\ \A j \in 1..(k - 1) : FileCount(j) > FileCount(k)

-----------------------------------------------------------------------------
(* C6 *)

\* C6: for a table of exactly one record the reported standard deviation
\* is 0, not NaN, and the run does not fail.
C6_SingleRecordStdIsZero ==
    (ValidInput /\ FileN = 1) =>
        /\ pc # "failed"
        /\ \A n \in 1..Len(stdout) :
             stdout[n].kind = "std" => stdout[n].b # 0 /\ stdout[n].a = 0

-----------------------------------------------------------------------------
(* C7 *)

RECURSIVE SumA(_)
SumA(ls) == IF ls = <<>> THEN 0 ELSE ls[1].a + SumA(Tail(ls))

\* C7: for every non-empty table with total count > 0, the report gives one
\* probability per record, in table order: the record's own count over the
\* sum of all the records' counts; the numerators sum to the denominator.
C7_ProbabilityIsCountOverTotal ==
    (HeaderOK /\ FileN >= 1 /\ AllCellsInt /\ FileTotal > 0 /\ pc = "done") =>
        LET P == Printed("prob")
        IN  /\ Len(P) = FileN
            /\ \A k \in 1..FileN :
                 /\ P[k].lab = df.Measurement[k]
                 /\ P[k].a = FileCount(k)
                 /\ P[k].b = FileTotal
            /\ SumA(P) = P[1].b

C7_Witness ==
    /\ ValidInput /\ FileN >= 3 /\ FileTotal > 0
    /\ \E k \in 1..FileN : FileCount(k) = 0
    /\ \E j, k \in 1..FileN : FileCount(j) # FileCount(k) /\ FileCount(j) > 0
    /\ pc = "done"

-----------------------------------------------------------------------------
(* C8 *)

\* C8: once the label loop has ended, the chart of a table of N >= 1
\* records has exactly N annotations, the k-th showing the k-th record's
\* count, centred at the x of bar k and tick k, at height count + 1; while
\* the loop runs there is one annotation per record already visited.
C8_OneAnnotationPerBar ==
    (HeaderOK /\ FileN >= 1 /\ AllCellsInt) =>
        /\ pc = "annotate" => Len(fig.texts) = i
        /\ pc \in {"finish", "savefig", "show", "showing", "done"} \cup ReportSteps =>
             /\ Len(fig.texts) = FileN
             /\ Len(fig.bars) = FileN
             /\ Len(fig.ticks) = FileN
             /\ \A k \in 1..FileN :
                  /\ fig.texts[k].x = k - 1
                  /\ fig.bars[k].x = k - 1
                  /\ fig.ticks[k].x = k - 1
                  /\ fig.texts[k].y = FileCount(k) + 1
                  /\ IntOf(fig.texts[k].s) = FileCount(k)
                  /\ fig.bars[k].height.v = FileCount(k)

C8_Witness ==
    /\ ValidInput /\ FileN >= 3
    /\ \E j, k \in 1..FileN : FileCount(j) # FileCount(k)
    /\ pc = "savefig"
    /\ Len(fig.texts) = FileN

-----------------------------------------------------------------------------
(* C9 *)

ReportComplete ==
    /\ \A kind \in StatKinds : Len(Printed(kind)) = 1
    /\ Len(Printed("prob")) = FileN

-----------------------------------------------------------------------------
(* C10 *)

\* C10 as stated: the stages run in the order Loader, Statistics, Chart
\* Builder, Exporter: the summary statistics are computed before the first
\* chart-building step, and the image is written only once the chart is
\* fully built.
C10_StatisticsBeforeChart ==
    /\ fig.created => \A kind \in StatKinds : HasLine(kind)
    /\ image.written => ChartComplete(image.fig)

\* C10 as amended: the stages run in the order Loader (load, validation,
\* size and total printed), Chart Builder, Exporter (image, then display),
\* Statistics and report, each ended before the next begins: the chart is
\* begun only after the load, the image is written only once the chart is
\* fully built, and mode, antimode, mean and standard deviation are
\* computed, in that order, only after the image is written and the
\* display step has returned.
C10_StageOrder ==
    /\ fig.created =>
         /\ pc \notin {"load", "validate", "print_loaded", "subplots"}
         /\ df = read_csv(file)
         /\ Len(Printed("loaded")) = 1 /\ Len(Printed("total")) = 1
    /\ pc \in ChartSteps => ~image.written /\ ~AnyStatistic
    /\ image.written => ChartComplete(image.fig) /\ image.fig = fig
    /\ pc \in {"savefig", "show", "showing"} => ChartComplete(fig) /\ ~AnyStatistic
    /\ AnyStatistic => image.written /\ viewer # "open" /\ pc \notin {"show", "showing"}
    /\ HasLine("std") => HasLine("mean")
    /\ HasLine("mean") => HasLine("antimode")
    /\ HasLine("antimode") => HasLine("mode")

C10_Witness ==
    /\ ValidInput /\ FileN >= 2
    /\ pc = "done"
    /\ image.written
    /\ \A kind \in StatKinds : HasLine(kind)

====
